---------------------------- MODULE Spec2Model ----------------------------
(***************************************************************************)
(* Model of the natural-language routing layer of kali-linux-mcp: the      *)
(* per-user conversation store, the model-reply parser, the dispatcher     *)
(* and the subprocess runner, in the modular bot (src/v2) and in the       *)
(* single-file server (src/kali_mcp_server_telegram.py).                   *)
(*                                                                         *)
(* Text is modelled as a sequence of tokens.  The tokens are               *)
(*   "F"  the three-backtick fence marker                                  *)
(*   "j"  the letters json                                                 *)
(*   "_"  a run of whitespace                                              *)
(*   "x"  any other text that is not JSON                                  *)
(* and one token per JSON document the model may emit (JsonTokens for     *)
(* objects, JsonScalars for values that are no object).                    *)
(***************************************************************************)
EXTENDS Integers, Sequences, FiniteSets, TLC

VARIABLES impl, root_password, openai_client, ALLOWED_USER_IDS,
          discovered_tools, user_contexts, tasks, outbox, procs

(* What the environment and construction fix for the whole run, with the  *)
(* catalogue of discovered tools                                           *)
settings == <<impl, root_password, openai_client, ALLOWED_USER_IDS>>

config == <<impl, root_password, openai_client, ALLOWED_USER_IDS, discovered_tools>>

vars == <<impl, root_password, openai_client, ALLOWED_USER_IDS, discovered_tools,
         user_contexts, tasks, outbox, procs>>

-----------------------------------------------------------------------------
(* Bounds of the model *)

MaxStored == 12

MaxLen == 4

(* The longest output of a command, in characters *)
MaxOutput == 9000

(* The entries stored or about to be stored when handlers interleave *)
MaxConc == 4

(* The entries stored before the bot of SpecBot takes no further message *)
MaxBot == 4

-----------------------------------------------------------------------------
(* Program constants *)

AI_MAX_CONTEXT == 10

LEGACY_MAX_CONTEXT == 5

Impls == {"v2", "legacy"}

Users == {1, 2}

Tasks == {"t1", "t2"}


(* Identifiers of the tools a model reply may name *)
ToolNames == {"nmap", "wpscan", "foo", "install_package"}

(* The texts a user may send *)
UserMessages == {<<"x">>, <<"x", "_", "x">>}

-----------------------------------------------------------------------------
(* Python string and list primitives, on token sequences *)

Max(a, b) == IF a >= b THEN a ELSE b

Min(a, b) == IF a <= b THEN a ELSE b

(* s[:n] where s[-n:] was meant *)
PySliceFirst(s, n) == SubSeq(s, 1, Min(n, Len(s)))

(* s[-n:] : the last n items; Python reads -0 as 0, so s[-0:] is all of s *)
PySliceLast(s, n) ==
    IF n = 0 THEN s ELSE SubSeq(s, Max(Len(s) - n, 0) + 1, Len(s))

(* str.startswith *)
startswith(s, p) == Len(s) >= Len(p) /\ SubSeq(s, 1, Len(p)) = p

(* str.strip with no argument: removes leading and trailing whitespace *)
RECURSIVE lstrip(_)
lstrip(s) == IF s # <<>> /\ Head(s) = "_" THEN lstrip(Tail(s)) ELSE s

RECURSIVE rstrip(_)
rstrip(s) ==
    IF s # <<>> /\ s[Len(s)] = "_" THEN rstrip(SubSeq(s, 1, Len(s) - 1)) ELSE s

strip(s) == rstrip(lstrip(s))

(* str.find: position of the first occurrence of sep in s, 0 when absent *)
find(s, sep) ==
    LET hits == {i \in 1..(Len(s) - Len(sep) + 1) :
                     SubSeq(s, i, i + Len(sep) - 1) = sep}
    IN  IF hits = {} THEN 0 ELSE CHOOSE i \in hits : \A k \in hits : i <= k

(* str.split(sep): the pieces between the non-overlapping occurrences of sep *)
RECURSIVE split(_, _)
split(s, sep) ==
    LET i == find(s, sep)
    IN  IF i = 0 THEN <<s>>
        ELSE <<SubSeq(s, 1, i - 1)>> \o split(SubSeq(s, i + Len(sep), Len(s)), sep)

FENCE == <<"F">>

FENCE_JSON == <<"F", "j">>

-----------------------------------------------------------------------------
(* JSON documents and json.loads *)

JsonTokens == {"C", "T", "G", "B", "I", "Q", "N", "U", "M", "E", "O"}

(* Documents that are valid JSON but no object: the number 5 and a list *)
JsonScalars == {"5", "L"}

JsonDocs == JsonTokens \cup JsonScalars

(* The value json.loads yields for each document *)
JsonValue(tok) ==
    CASE tok = "C" -> [conversation |-> "hi"]
      [] tok = "T" -> [tool |-> "nmap", parameters |-> [target |-> "10.0.0.1"],
                       explanation |-> "scan"]
      [] tok = "G" -> [tool |-> "wpscan", parameters |-> [url |-> "http://site"],
                       explanation |-> "wp"]
      [] tok = "B" -> [tool |-> "foo", parameters |-> [arg |-> "v"],
                       explanation |-> "run"]
      [] tok = "I" -> [tool |-> "install_package", parameters |-> [package |-> "hashcat"],
                       explanation |-> "install"]
      [] tok = "Q" -> [question |-> "which host?", suggestions |-> <<"a", "b">>]
      [] tok = "N" -> [tool_not_installed |-> "nmap"]
      [] tok = "U" -> [status |-> "ok"]
      [] tok = "M" -> [tool |-> "nmap", parameters |-> [target |-> "10.0.0.1"],
                       question |-> "which ports?"]
      [] tok = "E" -> [conversation |-> "hi", error |-> "oops"]
      [] tok = "O" -> [tool |-> "nmap"]
      [] tok = "5" -> [not_mapping |-> "number"]
      [] tok = "L" -> [not_mapping |-> "list"]

(* isinstance(v, dict): a value that is no object is written as a record   *)
(* with the single field not_mapping                                       *)
is_mapping(v) == "not_mapping" \notin DOMAIN v

(* dict.get(key, default) *)
get(d, key, default) == IF key \in DOMAIN d THEN d[key] ELSE default

(* No value: the variable has not been assigned *)
NoResult == [none |-> TRUE]

(* json.loads: whitespace around a single document is accepted, anything    *)
(* else raises JSONDecodeError                                             *)
json_loads(s) ==
    LET t == strip(s)
    IN  IF Len(t) = 1 /\ t[1] \in JsonDocs
        THEN [raised |-> "none", value |-> JsonValue(t[1])]
        ELSE [raised |-> "JSONDecodeError", value |-> NoResult]

(* print(list(parsed.keys())) after json.loads: a value that is no object  *)
(* has no keys method, and the AttributeError is not caught here           *)
logged_keys(loaded) ==
    IF loaded.raised = "none" /\ ~is_mapping(loaded.value)
    THEN [raised |-> "AttributeError", value |-> NoResult]
    ELSE loaded

(* _parse_ai_response without the fence handling *)
_parse_unfenced(response) == json_loads(strip(response))

(* AIAssistant._parse_ai_response *)
_parse_ai_response(response) ==
    LET cleaned ==
            IF startswith(strip(response), FENCE_JSON)
            THEN strip(split(split(response, FENCE_JSON)[2], FENCE)[1])
            ELSE IF startswith(strip(response), FENCE)
                 THEN strip(split(split(response, FENCE)[2], FENCE)[1])
                 ELSE strip(response)
    IN  logged_keys(json_loads(cleaned))

(* The fence removal and json.loads inlined in ai_parse_command *)
legacy_parse(ai_response) ==
    LET cleaned ==
            IF startswith(ai_response, FENCE_JSON)
            THEN strip(split(split(ai_response, FENCE_JSON)[2], FENCE)[1])
            ELSE IF startswith(ai_response, FENCE)
                 THEN strip(split(split(ai_response, FENCE)[2], FENCE)[1])
                 ELSE ai_response
    IN  json_loads(cleaned)

-----------------------------------------------------------------------------
(* The conversation store and the model call *)

(* The tools the scan made at construction found on the host *)
InitialTools == {"nmap"}

(* AIAssistant._get_installed_tools_summary: the discovered tools, sorted *)
_get_installed_tools_summary(tools) ==
    SelectSeq(<<"nmap", "wpscan">>, LAMBDA name : name \in tools)

(* AIAssistant._load_system_prompt: the prompt text "P" with the           *)
(* {INSTALLED_TOOLS} placeholder replaced by the summary                   *)
_load_system_prompt(tools) == <<"P">> \o _get_installed_tools_summary(tools)

(* self.system_prompt, assigned once in AIAssistant.__init__ / the         *)
(* system_prompt f-string of ai_parse_command over the static TOOLS        *)
system_prompt == _load_system_prompt(InitialTools)

(* The keyword arguments of chat.completions.create *)
create_kwargs == {"model", "messages", "temperature", "max_tokens"}

(* check_authorization: an empty list authorizes everyone *)
check_authorization(user_id) ==
    ALLOWED_USER_IDS = {} \/ user_id \in ALLOWED_USER_IDS

(* An unavailable result without the suggestion *)
chat_unavailable_bare == [error |-> "IA no disponible"]

(* What AIAssistant.chat returns without a client *)
chat_unavailable ==
    [error |-> "IA no disponible",
     suggestion |-> "Configura OPENAI_API_KEY en el archivo .env"]

(* What ai_parse_command returns without a client *)
ai_parse_unavailable ==
    [error |-> "IA no disponible. Configura OPENAI_API_KEY",
     suggestion |-> "Usa comandos directos como: /nmap 192.168.1.1"]

(* The local variables of one handler invocation.  checked records the    *)
(* availability checks made, calls the tool executions requested.  pc is   *)
(* "raised" once an exception has left the handler.                        *)
IdleTask ==
    [pc |-> "idle", user_id |-> 0, user_message |-> <<>>, context |-> <<>>,
     messages |-> <<>>, parsed |-> NoResult, result |-> NoResult,
     checked |-> <<>>, calls |-> <<>>, request_args |-> {},
     caller |-> "none", runner |-> "none", command |-> <<>>, timeout |-> 0,
     run_result |-> NoResult]

NoProc == [shell |-> "none", children |-> "none", reaped |-> FALSE]

(* A store that keeps one history for all users *)
get_context_shared(ctxs, user_id) ==
    IF DOMAIN ctxs = {} THEN <<>> ELSE ctxs[CHOOSE u \in DOMAIN ctxs : TRUE]

(* user_contexts.get(user_id, []) *)
get_context(ctxs, user_id) ==
    IF user_id \in DOMAIN ctxs THEN ctxs[user_id] ELSE <<>>

(* AIAssistant.get_context_size *)
get_context_size(user_id) == Len(get_context(user_contexts, user_id))

(* The message list sent to the completion API: the system prompt, the     *)
(* last n entries of the context, the new user message                     *)
build_messages(context, n, user_message) ==
    <<[role |-> "system", content |-> system_prompt]>>
        \o PySliceLast(context, n)
        \o <<[role |-> "user", content |-> user_message]>>

(* A store that records the reply before the message *)
extended_context_swapped(context, user_message, ai_response) ==
    context \o <<[role |-> "assistant", content |-> ai_response],
                 [role |-> "user", content |-> user_message]>>

(* context + [user entry, assistant entry] *)
extended_context(context, user_message, ai_response) ==
    context \o <<[role |-> "user", content |-> user_message],
                 [role |-> "assistant", content |-> ai_response]>>

(* What running `which tool_name` can come to on the host *)
WhichOutcomes == {"exit_0", "exit_1", "raised"}

(* ToolDiscovery.check_tool_installed: `which tool_name` exited with 0;    *)
(* a non-zero exit and any exception count as absent                       *)
check_tool_installed(tool_name, which) == which = "exit_0"

(* ToolDiscovery.suggest_install(tool_name)["install_command"] *)
suggest_install(tool_name) ==
    IF tool_name = "wpscan" THEN <<"sudo", "gem", "install", "wpscan">>
    ELSE <<"sudo", "apt", "install", tool_name>>

(* Number of entries stored over all users, and of calls in flight *)
RECURSIVE SumLen(_, _)
SumLen(ctxs, S) ==
    IF S = {} THEN 0
    ELSE LET u == CHOOSE v \in S : TRUE
         IN  Len(ctxs[u]) + SumLen(ctxs, S \ {u})

TotalStored == SumLen(user_contexts, DOMAIN user_contexts)

InFlight == Cardinality({t \in Tasks : tasks[t].pc = "awaiting_model"})

(* KaliTelegramBot.handle_message up to the await of the completion API,   *)
(* through AIAssistant.chat                                                *)
handle_message(t, user_id, user_message) ==
    /\ impl = "v2"
    /\ tasks[t].pc \in {"idle", "done", "raised"}
    /\ TotalStored + 2 * InFlight <= MaxStored
    /\ LET context == get_context(user_contexts, user_id)
       IN  tasks' = [tasks EXCEPT ![t] =
                IF ~check_authorization(user_id)
                THEN [IdleTask EXCEPT !.pc = "done", !.user_id = user_id]
                ELSE IF ~openai_client
                THEN [IdleTask EXCEPT !.pc = "returned", !.user_id = user_id,
                          !.user_message = user_message, !.result = chat_unavailable]
                ELSE [IdleTask EXCEPT !.pc = "awaiting_model", !.user_id = user_id,
                          !.user_message = user_message, !.context = context,
                          !.messages = build_messages(context, AI_MAX_CONTEXT, user_message),
                          !.request_args = create_kwargs]]
    /\ outbox' = [outbox EXCEPT ![t] = <<>>]
    /\ procs' = [procs EXCEPT ![t] = NoProc]
    /\ UNCHANGED <<config, user_contexts>>

(* The exceptions the completion call, or the reading of its response,   *)
(* raises: timeout, transport failure, non-2xx status, no content         *)
ApiExceptions ==
    {"APITimeoutError", "APIConnectionError", "APIStatusError", "AttributeError"}

(* An except Exception clause that returns only the text of the exception *)
chat_error_bare(exc) == [error |-> <<exc>>]

(* What the except Exception clause of AIAssistant.chat returns *)
chat_error(exc) ==
    [error |-> <<"Error de IA:", exc>>,
     suggestion |-> <<"Intenta de nuevo o usa comandos directos">>]

(* A chat that returns what it parsed whatever the availability check says *)
chat_result_unchecked(ai_response, which) ==
    LET parsed == _parse_ai_response(ai_response)
    IN  IF parsed.raised = "JSONDecodeError"
        THEN [error |-> <<"Error al parsear respuesta de IA">>,
              suggestion |-> <<"Intenta reformular tu pregunta.">>]
        ELSE parsed.value

(* The value AIAssistant.chat returns once the completion API has answered *)
chat_result(ai_response, which) ==
    LET parsed == _parse_ai_response(ai_response)
    IN  IF parsed.raised = "JSONDecodeError"
        THEN [error |-> <<"Error al parsear respuesta de IA">>,
              suggestion |-> <<"Intenta reformular tu pregunta.">>]
        ELSE IF parsed.raised # "none" THEN chat_error(parsed.raised)
        ELSE IF "tool" \in DOMAIN parsed.value
                   /\ ~check_tool_installed(parsed.value.tool, which)
             THEN [tool_not_installed |-> parsed.value.tool,
                   install_command |-> suggest_install(parsed.value.tool),
                   offer_install |-> TRUE,
                   explanation |-> <<parsed.value.tool, "no esta instalada">>]
             ELSE parsed.value

(* The availability checks AIAssistant.chat makes for a parsed reply *)
chat_checks(ai_response, which) ==
    LET parsed == _parse_ai_response(ai_response)
    IN  IF parsed.raised = "none" /\ "tool" \in DOMAIN parsed.value
        THEN <<[tool |-> parsed.value.tool,
                present |-> check_tool_installed(parsed.value.tool, which)]>>
        ELSE <<>>

(* AIAssistant.chat from the answer of the completion API to its return *)
chat_response(t, content, which) ==
    /\ impl = "v2"
    /\ tasks[t].pc = "awaiting_model"
    /\ LET ai_response == strip(content)
           me == tasks[t]
       IN  /\ user_contexts' = (me.user_id :>
                   extended_context(me.context, me.user_message, ai_response))
                   @@ user_contexts
           /\ tasks' = [tasks EXCEPT ![t].pc = "returned",
                                     ![t].parsed = _parse_ai_response(ai_response).value,
                                     ![t].result = chat_result(ai_response, which),
                                     ![t].checked = chat_checks(ai_response, which)]
    /\ UNCHANGED <<config, outbox, procs>>

(* AIAssistant.chat when the completion API call raises exc *)
chat_failure(t, exc) ==
    /\ impl = "v2"
    /\ tasks[t].pc = "awaiting_model"
    /\ tasks' = [tasks EXCEPT ![t].pc = "returned",
                              ![t].result = chat_error(exc)]
    /\ UNCHANGED <<config, user_contexts, outbox, procs>>

(* A clear_context that trims the stored list to its last exchange *)
clear_context_trim(user_id) ==
    user_contexts' = IF user_id \in DOMAIN user_contexts
                     THEN [user_contexts EXCEPT ![user_id] = PySliceLast(@, 2)]
                     ELSE user_contexts

(* AIAssistant.clear_context *)
clear_context(user_id) ==
    user_contexts' = IF user_id \in DOMAIN user_contexts
                     THEN [user_contexts EXCEPT ![user_id] = <<>>]
                     ELSE user_contexts

(* KaliTelegramBot.clear_command *)
clear_command(user_id) ==
    /\ impl = "v2"
    /\ clear_context(user_id)
    /\ UNCHANGED <<config, tasks, outbox, procs>>

(* clear_context_command of the single-file server *)
clear_context_command(user_id) ==
    /\ impl = "legacy"
    /\ user_contexts' = IF user_id \in DOMAIN user_contexts
                        THEN [user_contexts EXCEPT ![user_id] = <<>>]
                        ELSE user_contexts
    /\ UNCHANGED <<config, tasks, outbox, procs>>

(* handle_ai_message up to the await of the completion API, through        *)
(* ai_parse_command                                                        *)
handle_ai_message(t, user_id, user_message) ==
    /\ impl = "legacy"
    /\ tasks[t].pc \in {"idle", "done", "raised"}
    /\ TotalStored + 2 * InFlight <= MaxStored
    /\ LET context == get_context(user_contexts, user_id)
       IN  tasks' = [tasks EXCEPT ![t] =
                IF ~check_authorization(user_id)
                THEN [IdleTask EXCEPT !.pc = "done", !.user_id = user_id]
                ELSE IF ~openai_client
                THEN [IdleTask EXCEPT !.pc = "returned", !.user_id = user_id,
                          !.user_message = user_message, !.result = ai_parse_unavailable]
                ELSE [IdleTask EXCEPT !.pc = "awaiting_model", !.user_id = user_id,
                          !.user_message = user_message, !.context = context,
                          !.messages = build_messages(context, LEGACY_MAX_CONTEXT, user_message),
                          !.request_args = create_kwargs]]
    /\ outbox' = [outbox EXCEPT ![t] = <<>>]
    /\ procs' = [procs EXCEPT ![t] = NoProc]
    /\ UNCHANGED <<config, user_contexts>>

(* An ai_parse_command without the except json.JSONDecodeError clause *)
ai_parse_result_raw(ai_response) == legacy_parse(ai_response).value

(* The value ai_parse_command returns once the completion API has answered *)
ai_parse_result(ai_response) ==
    LET parsed == legacy_parse(ai_response)
    IN  IF parsed.raised = "JSONDecodeError"
        THEN [error |-> <<"Error al parsear respuesta de IA:", "JSONDecodeError">>,
              raw_response |-> ai_response]
        ELSE parsed.value

(* ai_parse_command from the answer of the completion API to its return *)
ai_parse_response(t, content) ==
    /\ impl = "legacy"
    /\ tasks[t].pc = "awaiting_model"
    /\ LET ai_response == strip(content)
           me == tasks[t]
       IN  /\ user_contexts' = (me.user_id :>
                   extended_context(me.context, me.user_message, ai_response))
                   @@ user_contexts
           /\ tasks' = [tasks EXCEPT ![t].pc = "returned",
                                     ![t].parsed = legacy_parse(ai_response).value,
                                     ![t].result = ai_parse_result(ai_response)]
    /\ UNCHANGED <<config, outbox, procs>>

(* What the except Exception clause of ai_parse_command returns *)
ai_parse_error(exc) ==
    [error |-> <<"Error al comunicarse con IA:", exc>>,
     suggestion |-> <<"Intenta reformular tu solicitud o usa comandos directos">>]

(* ai_parse_command when the completion API call raises *)
ai_parse_failure(t, exc) ==
    /\ impl = "legacy"
    /\ tasks[t].pc = "awaiting_model"
    /\ tasks' = [tasks EXCEPT ![t].pc = "returned",
                              ![t].result = ai_parse_error(exc)]
    /\ UNCHANGED <<config, user_contexts, outbox, procs>>

-----------------------------------------------------------------------------
(* Running a command line in a subprocess *)

(* The output a command may write *)
Outputs == {<<>>, <<"o">>}

(* The exit codes a command may return *)
ReturnCodes == {0, 1}

CHUNK == 4000

(* TOOL_TIMEOUTS.get(tool_name, TOOL_TIMEOUTS["default"]) *)
TOOL_TIMEOUTS(tool_name) ==
    CASE tool_name = "nmap" -> 600
      [] tool_name = "wpscan" -> 600
      [] OTHER -> 300

(* str.replace(old, new) on the tokens of a command line *)
replace(s, old, new) == [i \in 1..Len(s) |-> IF s[i] = old THEN new ELSE s[i]]

(* The command line handed to the shell.  ToolSystemManager._run_command   *)
(* rewrites it for sudo; the other two runners pass it on unchanged.       *)
shell_command(runner, command, use_sudo) ==
    IF runner = "system" /\ use_sudo /\ root_password # ""
    THEN <<"echo", root_password, "|", "sudo", "-S">> \o command
    ELSE IF runner = "system" /\ use_sudo
         THEN <<"sudo">> \o command
         ELSE command

(* The command field of a result returned from inside the inner try *)
reported_command(runner, command) ==
    IF runner = "system" /\ root_password # ""
    THEN replace(command, root_password, "***")
    ELSE command

(* The result returned when communicate() completes within the timeout *)
run_success(runner, command, out, err, rc) ==
    [success |-> TRUE, command |-> reported_command(runner, command),
     stdout |-> out, stderr |-> err, returncode |-> rc]

(* A timeout result that also carries the output fields *)
run_timeout_partial(runner, command, timeout) ==
    [success |-> FALSE, command |-> reported_command(runner, command),
     error |-> <<"Comando", "excedio", "el", "timeout", "de",
                 ToString(timeout), "segundos">>,
     stdout |-> <<>>, stderr |-> <<>>, returncode |-> -9]

(* The result returned when asyncio.TimeoutError is caught *)
run_timeout(runner, command, timeout) ==
    [success |-> FALSE, command |-> reported_command(runner, command),
     error |-> <<"Comando", "excedio", "el", "timeout", "de",
                 ToString(timeout), "segundos">>]

(* The result returned by the outer except Exception *)
run_exception(runner, command) ==
    [success |-> FALSE, command |-> command, error |-> <<"OSError">>]

(* The chunks of an output longer than CHUNK: output[i:i+4000] for i in    *)
(* range(0, len(output), 4000)                                             *)
chunks(output) ==
    [k \in 1..((Len(output) + CHUNK - 1) \div CHUNK) |->
        SubSeq(output, CHUNK * (k - 1) + 1, Min(CHUNK * k, Len(output)))]

(* f"```\n{text}\n```": the text of a reply that shows output *)
fenced(text) == FENCE \o <<"_">> \o text \o <<"_">> \o FENCE

(* The replies both dispatchers send for the decoded execution result *)
run_replies(result_data) ==
    IF "success" \in DOMAIN result_data /\ result_data.success
    THEN IF Len(result_data.stdout) > CHUNK
         THEN [k \in 1..Len(chunks(result_data.stdout)) |->
                  [kind |-> "output", text |-> fenced(chunks(result_data.stdout)[k])]]
         ELSE <<[kind |-> "output", text |-> fenced(result_data.stdout)]>>
    ELSE <<[kind |-> "error",
            text |-> IF "error" \in DOMAIN result_data
                     THEN result_data.error ELSE <<"Error desconocido">>]>>

(* What the caller of the runner does with the result: the executor method *)
(* and format_result, then the dispatcher's json.loads                     *)
decoded_result(me, run_result) ==
    IF me.runner = "system" /\ me.calls # <<>>
    THEN run_result @@ [package |-> me.calls[1].parameters.package,
                        package_manager |-> "apt"]
    ELSE run_result

(* The task and its reply list once the runner has returned run_result *)
after_run(me, run_result) ==
    [me EXCEPT !.pc = "done", !.run_result = run_result]

(* The reply whatweb_command sends for the decoded result: output[:4000] *)
whatweb_replies(result_data) ==
    IF "success" \in DOMAIN result_data /\ result_data.success
    THEN <<[kind |-> "output",
            text |-> fenced(SubSeq(result_data.stdout, 1,
                                   Min(CHUNK, Len(result_data.stdout))))]>>
    ELSE <<[kind |-> "error", text |-> get(result_data, "error", <<"None">>)]>>

(* ToolExecutor.install_tool after its run_command has returned result *)
install_tool(tool_name, result) ==
    IF get(result, "success", FALSE)
    THEN [success |-> TRUE, tool |-> tool_name,
          message |-> <<tool_name, "instalado correctamente">>]
    ELSE [success |-> FALSE, tool |-> tool_name,
          error |-> get(result, "error", <<"Error desconocido">>)]

(* The reply install_callback sends for the result of install_tool *)
install_replies(result) ==
    IF get(result, "success", FALSE)
    THEN <<[kind |-> "installed", tool |-> result.tool]>>
    ELSE <<[kind |-> "error", text |-> get(result, "error", <<"Error desconocido">>)]>>

(* ToolDiscovery.scan_installed_tools: the common tools `which` finds now. *)
(* The tools found before are still there; tool_name is there when its     *)
(* install command exited with 0                                           *)
scan_installed_tools(tools, tool_name, returncode) ==
    IF returncode = 0 THEN (tools \cup {tool_name}) \cap {"nmap", "wpscan"}
    ELSE tools

(* The catalogue after the runner has returned run_result to its caller:   *)
(* install_callback rescans when install_tool reports success              *)
after_run_discovered(me, run_result, tools) ==
    IF me.caller = "install" /\ install_tool(me.calls[1].tool, run_result).success
    THEN scan_installed_tools(tools, me.calls[1].tool, run_result.returncode)
    ELSE tools

(* [TextContent(type="text", text=result)] *)
text_result(result) == <<[kind |-> "text", text |-> result]>>

after_run_replies(me, run_result) ==
    IF me.caller = "direct" THEN <<>>
    ELSE IF me.caller = "whatweb" THEN whatweb_replies(run_result)
    ELSE IF me.caller = "install"
    THEN install_replies(install_tool(me.calls[1].tool, run_result))
    ELSE IF me.caller = "mcp" THEN text_result(run_result)
    ELSE run_replies(decoded_result(me, run_result))

(* create_subprocess_shell: the shell, and the processes it starts for the *)
(* command line unless it replaces itself by the command                   *)
spawned(forks) ==
    [shell |-> "running", children |-> IF forks THEN "running" ELSE "none",
     reaped |-> FALSE]

(* A runner called with command and timeout, up to the await of            *)
(* communicate(); spawn_ok is FALSE when create_subprocess_shell raises    *)
start_run(me, caller, runner, command, timeout, use_sudo, spawn_ok) ==
    LET cmd == shell_command(runner, command, use_sudo)
        called == [me EXCEPT !.caller = caller, !.runner = runner,
                             !.command = cmd, !.timeout = timeout]
    IN  IF spawn_ok THEN [called EXCEPT !.pc = "awaiting_process"]
        ELSE after_run(called, run_exception(runner, cmd))

start_run_replies(me, caller, runner, command, use_sudo, spawn_ok) ==
    IF spawn_ok THEN <<>>
    ELSE after_run_replies(
             [me EXCEPT !.caller = caller, !.runner = runner],
             run_exception(runner, shell_command(runner, command, use_sudo)))

(* ToolExecutor.run_command, ToolSystemManager._run_command and the        *)
(* run_command of the single-file server, called directly                  *)
run_command(t, runner, command, timeout, use_sudo, spawn_ok, forks) ==
    /\ tasks[t].pc \in {"idle", "done", "raised"}
    /\ (runner = "legacy") = (impl = "legacy")
    /\ use_sudo => runner = "system"
    /\ tasks' = [tasks EXCEPT ![t] =
           start_run(IdleTask, "direct", runner, command, timeout, use_sudo, spawn_ok)]
    /\ procs' = [procs EXCEPT ![t] = IF spawn_ok THEN spawned(forks) ELSE NoProc]
    /\ outbox' = [outbox EXCEPT ![t] = <<>>]
    /\ UNCHANGED <<config, user_contexts>>

(* communicate() completes before the timeout: the command has exited and  *)
(* the runner returns its output                                           *)
run_command_exit(t, out, err, rc) ==
    /\ tasks[t].pc = "awaiting_process"
    /\ procs[t].shell = "running"
    /\ LET me == tasks[t]
           res == run_success(me.runner, me.command, out, err, rc)
       IN  /\ tasks' = [tasks EXCEPT ![t] = after_run(me, res)]
           /\ outbox' = [outbox EXCEPT ![t] = @ \o after_run_replies(me, res)]
           /\ discovered_tools' = after_run_discovered(me, res, discovered_tools)
    /\ procs' = [procs EXCEPT ![t] =
           [shell |-> "exited",
            children |-> IF @.children = "none" THEN "none" ELSE "exited",
            reaped |-> TRUE]]
    /\ UNCHANGED <<settings, user_contexts>>

(* The timeout elapses while the command is running: wait_for raises       *)
(* TimeoutError, process.kill() signals the shell, the runner returns      *)
run_command_timeout(t) ==
    /\ tasks[t].pc = "awaiting_process"
    /\ procs[t].shell = "running"
    /\ LET me == tasks[t]
           res == run_timeout(me.runner, me.command, me.timeout)
       IN  /\ tasks' = [tasks EXCEPT ![t] = after_run(me, res)]
           /\ outbox' = [outbox EXCEPT ![t] = @ \o after_run_replies(me, res)]
    /\ procs' = [procs EXCEPT ![t].shell = "killed"]
    /\ UNCHANGED <<config, user_contexts>>

(* The event loop's child watcher collects the exit status of a killed     *)
(* shell some time after the runner has returned                           *)
child_watcher_reap(t) ==
    /\ procs[t].shell = "killed"
    /\ ~procs[t].reaped
    /\ procs' = [procs EXCEPT ![t].reaped = TRUE]
    /\ UNCHANGED <<config, user_contexts, tasks, outbox>>

(* A process the killed shell had started ends on its own *)
orphan_exit(t) ==
    /\ procs[t].shell = "killed"
    /\ procs[t].children = "running"
    /\ procs' = [procs EXCEPT ![t].children = "exited"]
    /\ UNCHANGED <<config, user_contexts, tasks, outbox>>

-----------------------------------------------------------------------------
(* Building the command line of a tool *)

(* " ".join(f"{v}" for v in parameters.values()), for the one-parameter    *)
(* mappings of JsonValue                                                   *)
RECURSIVE values(_, _)
values(d, keys) ==
    IF keys = {} THEN <<>>
    ELSE LET k == CHOOSE x \in keys : TRUE
         IN  <<d[k]>> \o values(d, keys \ {k})

NoCommand == [raised |-> TRUE, runner |-> "none", command |-> <<>>,
              timeout |-> 0, use_sudo |-> FALSE]

(* ToolExecutor.execute_tool with the method it selects: the command line, *)
(* its timeout and its runner, or raised when a required parameter is      *)
(* missing (KeyError)                                                      *)
execute_tool(tool_name, parameters) ==
    CASE tool_name = "nmap" ->
            IF "target" \notin DOMAIN parameters THEN NoCommand
            ELSE [raised |-> FALSE, runner |-> "executor",
                  command |-> <<"nmap", "-p", get(parameters, "ports", "1-1000"),
                                parameters.target>>,
                  timeout |-> TOOL_TIMEOUTS("nmap"), use_sudo |-> FALSE]
      [] tool_name = "install_package" ->
            IF "package" \notin DOMAIN parameters THEN NoCommand
            ELSE [raised |-> FALSE, runner |-> "system",
                  command |-> <<"apt-get", "update", "&&", "apt-get", "install",
                                "-y", parameters.package>>,
                  timeout |-> 1800, use_sudo |-> TRUE]
      [] OTHER ->
            [raised |-> FALSE, runner |-> "executor",
             command |-> <<tool_name>> \o values(parameters, DOMAIN parameters),
             timeout |-> TOOL_TIMEOUTS(tool_name), use_sudo |-> FALSE]

(* The keys of ToolDiscovery.common_kali_tools and of tool_methods that   *)
(* the modelled replies can name                                          *)
common_kali_tools == {"nmap", "wpscan"}

tool_methods == {"nmap", "install_package"}

(* The keys of TOOL_HANDLERS that the modelled replies can name *)
TOOL_HANDLERS == {"nmap", "wpscan"}

(* scan_options of tool_nmap, without the ports *)
scan_options ==
    [quick |-> <<"-F">>, basic |-> <<"-p">>, version |-> <<"-sV", "-p">>,
     aggressive |-> <<"-A", "-p">>, stealth |-> <<"-sS", "-p">>,
     udp |-> <<"-sU", "-p">>]

(* The command line tool_nmap builds *)
nmap_command(args) ==
    LET scan_type == get(args, "scan_type", "basic")
        output_format == get(args, "output_format", "normal")
    IN  <<"nmap">> \o scan_options[scan_type]
            \o (IF scan_type = "quick" THEN <<>>
                ELSE <<get(args, "ports", "1-1000")>>)
            \o (IF output_format = "verbose" THEN <<"-v">> ELSE <<>>)
            \o (IF output_format = "xml" THEN <<"-oX", "-">> ELSE <<>>)
            \o <<args.target>>

(* The key the KeyError of a tool function names: a missing required       *)
(* argument, or for tool_nmap a scan_type that scan_options does not hold  *)
key_error(tool_name, parameters) ==
    CASE tool_name = "nmap" /\ "target" \notin DOMAIN parameters -> "target"
      [] tool_name = "nmap" -> get(parameters, "scan_type", "basic")
      [] tool_name = "wpscan" -> "url"

(* TOOL_HANDLERS[tool_name](parameters): tool_nmap and tool_wpscan *)
tool_handler(tool_name, parameters) ==
    CASE tool_name = "nmap" ->
            IF \/ "target" \notin DOMAIN parameters
               \/ get(parameters, "scan_type", "basic") \notin DOMAIN scan_options
            THEN NoCommand
            ELSE [raised |-> FALSE, runner |-> "legacy",
                  command |-> nmap_command(parameters),
                  timeout |-> 600, use_sudo |-> FALSE]
      [] tool_name = "wpscan" ->
            IF "url" \notin DOMAIN parameters THEN NoCommand
            ELSE [raised |-> FALSE, runner |-> "legacy",
                  command |-> <<"wpscan", "--url", parameters.url, "--enumerate",
                                get(parameters, "enumerate", "vp,vt,u")>>,
                  timeout |-> 600, use_sudo |-> FALSE]

-----------------------------------------------------------------------------
(* The dispatcher of the modular bot *)

(* The shape _handle_ai_response acts on: its key tests in source order *)
v2_shape(r) ==
    CASE "conversation" \in DOMAIN r -> "conversation"
      [] "question" \in DOMAIN r -> "question"
      [] "tool_not_installed" \in DOMAIN r -> "tool_not_installed"
      [] "tool" \in DOMAIN r /\ "parameters" \in DOMAIN r -> "tool"
      [] "error" \in DOMAIN r -> "error"
      [] OTHER -> "unknown"

(* The last reply of _handle_ai_response, for a result of no known shape *)
unknown_reply(r) ==
    <<[kind |-> "unknown",
       text |-> <<"No", "entendi", "esa", "respuesta.", "Intenta", "reformular">>]>>

(* The replies of the branches of _handle_ai_response that run no tool *)
v2_replies(r) ==
    CASE v2_shape(r) = "conversation" ->
            <<[kind |-> "conversation", text |-> r.conversation]>>
      [] v2_shape(r) = "question" ->
            <<[kind |-> "question", text |-> r.question,
               suggestions |-> get(r, "suggestions", <<>>)]>>
      [] v2_shape(r) = "tool_not_installed" ->
            <<[kind |-> "offer_install", tool |-> r.tool_not_installed,
               install_command |-> r.install_command,
               explanation |-> get(r, "explanation", <<>>),
               callback_data |-> <<"install_", r.tool_not_installed>>]>>
      [] v2_shape(r) = "error" ->
            <<[kind |-> "error", text |-> r.error,
               suggestion |-> get(r, "suggestion", <<>>)]>>
      [] OTHER -> unknown_reply(r)

(* ai_result["install_command"] raises KeyError *)
v2_raises(r) ==
    v2_shape(r) = "tool_not_installed" /\ "install_command" \notin DOMAIN r

(* KaliTelegramBot._handle_ai_response for a result that runs no tool *)
_handle_ai_response(t) ==
    /\ impl = "v2"
    /\ tasks[t].pc = "returned"
    /\ v2_shape(tasks[t].result) # "tool"
    /\ IF v2_raises(tasks[t].result)
       THEN /\ outbox' = outbox
            /\ tasks' = [tasks EXCEPT ![t].pc = "raised"]
       ELSE /\ outbox' = [outbox EXCEPT ![t] = @ \o v2_replies(tasks[t].result)]
            /\ tasks' = [tasks EXCEPT ![t].pc = "done"]
    /\ UNCHANGED <<config, user_contexts, procs>>

(* execute_tool called with the result itself for its parameters *)
tool_call_whole(r) == [tool |-> r.tool, parameters |-> r]

(* The arguments of the execution the dispatcher requests: ai_result["tool"] *)
(* and ai_result["parameters"]                                             *)
tool_call(r) == [tool |-> r.tool, parameters |-> r.parameters]

(* The two replies sent before a tool is run *)
announce(r, default) ==
    <<[kind |-> "announce", tool |-> r.tool, parameters |-> r.parameters,
       explanation |-> get(r, "explanation", default)],
      [kind |-> "executing", tool |-> r.tool]>>

(* KaliTelegramBot._handle_ai_response for a tool result, up to the await  *)
(* of the subprocess                                                       *)
_handle_ai_response_tool(t, spawn_ok, forks) ==
    /\ impl = "v2"
    /\ tasks[t].pc = "returned"
    /\ v2_shape(tasks[t].result) = "tool"
    /\ LET r == tasks[t].result
           call == tool_call(r)
           me == [tasks[t] EXCEPT !.calls = @ \o <<call>>]
           built == execute_tool(call.tool, call.parameters)
       IN  IF built.raised
           THEN /\ tasks' = [tasks EXCEPT ![t] = [me EXCEPT !.pc = "done"]]
                /\ outbox' = [outbox EXCEPT ![t] =
                       @ \o announce(r, <<"Ejecutando...">>)
                         \o <<[kind |-> "error", text |-> <<"Error al ejecutar:", "KeyError">>]>>]
                /\ procs' = procs
           ELSE /\ tasks' = [tasks EXCEPT ![t] =
                       start_run(me, "v2", built.runner, built.command,
                                 built.timeout, built.use_sudo, spawn_ok)]
                /\ outbox' = [outbox EXCEPT ![t] =
                       @ \o announce(r, <<"Ejecutando...">>)
                         \o start_run_replies(me, "v2", built.runner, built.command,
                                              built.use_sudo, spawn_ok)]
                /\ procs' = [procs EXCEPT ![t] =
                       IF spawn_ok THEN spawned(forks) ELSE NoProc]
    /\ UNCHANGED <<config, user_contexts>>

-----------------------------------------------------------------------------
(* The dispatcher of the single-file server *)

(* The shape handle_ai_message acts on: its key tests in source order *)
legacy_shape(r) ==
    CASE "error" \in DOMAIN r -> "error"
      [] "conversation" \in DOMAIN r -> "conversation"
      [] "question" \in DOMAIN r -> "question"
      [] "tool" \in DOMAIN r /\ "parameters" \in DOMAIN r -> "tool"
      [] OTHER -> "unknown"

(* The replies of the branches of handle_ai_message that run no tool *)
legacy_replies(r) ==
    CASE legacy_shape(r) = "error" ->
            <<[kind |-> "error", text |-> r.error,
               suggestion |-> get(r, "suggestion", <<>>)]>>
      [] legacy_shape(r) = "conversation" ->
            <<[kind |-> "conversation", text |-> r.conversation]>>
      [] legacy_shape(r) = "question" ->
            <<[kind |-> "question", text |-> r.question,
               suggestions |-> get(r, "suggestions", <<>>)]>>
      [] OTHER -> <<[kind |-> "unknown",
                     text |-> <<"No", "pude", "interpretar", "tu", "solicitud.">>]>>

(* "error" in ai_result raises TypeError for a number; for a list every     *)
(* membership test is false                                                *)
legacy_raises(r) == ~is_mapping(r) /\ r.not_mapping = "number"

(* handle_ai_message after ai_parse_command, for a result that runs no tool *)
handle_ai_message_reply(t) ==
    /\ impl = "legacy"
    /\ tasks[t].pc = "returned"
    /\ legacy_shape(tasks[t].result) # "tool"
    /\ IF legacy_raises(tasks[t].result)
       THEN /\ outbox' = outbox
            /\ tasks' = [tasks EXCEPT ![t].pc = "raised"]
       ELSE /\ outbox' = [outbox EXCEPT ![t] = @ \o legacy_replies(tasks[t].result)]
            /\ tasks' = [tasks EXCEPT ![t].pc = "done"]
    /\ UNCHANGED <<config, user_contexts, procs>>

(* handle_ai_message after ai_parse_command, for a tool result, up to the  *)
(* await of the subprocess                                                 *)
handle_ai_message_tool(t, spawn_ok, forks) ==
    /\ impl = "legacy"
    /\ tasks[t].pc = "returned"
    /\ legacy_shape(tasks[t].result) = "tool"
    /\ LET r == tasks[t].result
           me == tasks[t]
       IN  IF r.tool \notin TOOL_HANDLERS
           THEN /\ tasks' = [tasks EXCEPT ![t].pc = "done"]
                /\ outbox' = [outbox EXCEPT ![t] =
                       @ \o announce(r, <<"Ejecutando comando...">>)
                         \o <<[kind |-> "error", text |-> <<"Herramienta", r.tool, "no encontrada">>]>>]
                /\ procs' = procs
           ELSE LET call == tool_call(r)
                    called == [me EXCEPT !.calls = @ \o <<call>>]
                    built == tool_handler(call.tool, call.parameters)
                IN  IF built.raised
                    THEN /\ tasks' = [tasks EXCEPT ![t] = [called EXCEPT !.pc = "done"]]
                         /\ outbox' = [outbox EXCEPT ![t] =
                                @ \o announce(r, <<"Ejecutando comando...">>)
                                  \o <<[kind |-> "error", text |-> <<"Error al ejecutar:", "KeyError">>]>>]
                         /\ procs' = procs
                    ELSE /\ tasks' = [tasks EXCEPT ![t] =
                                start_run(called, "legacy", built.runner, built.command,
                                          built.timeout, built.use_sudo, spawn_ok)]
                         /\ outbox' = [outbox EXCEPT ![t] =
                                @ \o announce(r, <<"Ejecutando comando...">>)
                                  \o start_run_replies(called, "legacy", built.runner,
                                         built.command, built.use_sudo, spawn_ok)]
                         /\ procs' = [procs EXCEPT ![t] =
                                IF spawn_ok THEN spawned(forks) ELSE NoProc]
    /\ UNCHANGED <<config, user_contexts>>

(* whatweb_command of the single-file server: /whatweb <url>, up to the    *)
(* await of the subprocess                                                 *)
whatweb_command(t, user_id, args, spawn_ok, forks) ==
    /\ impl = "legacy"
    /\ tasks[t].pc \in {"idle", "done", "raised"}
    /\ IF ~check_authorization(user_id)
       THEN /\ tasks' = [tasks EXCEPT ![t] = [IdleTask EXCEPT !.pc = "done"]]
            /\ outbox' = [outbox EXCEPT ![t] = <<[kind |-> "unauthorized"]>>]
            /\ procs' = [procs EXCEPT ![t] = NoProc]
       ELSE IF args = <<>>
       THEN /\ tasks' = [tasks EXCEPT ![t] = [IdleTask EXCEPT !.pc = "done"]]
            /\ outbox' = [outbox EXCEPT ![t] = <<[kind |-> "usage"]>>]
            /\ procs' = [procs EXCEPT ![t] = NoProc]
       ELSE LET command == <<"whatweb", "-a", "1", "-v", args[1]>>
            IN  /\ tasks' = [tasks EXCEPT ![t] =
                       start_run(IdleTask, "whatweb", "legacy", command, 120,
                                 FALSE, spawn_ok)]
                /\ outbox' = [outbox EXCEPT ![t] =
                       <<[kind |-> "progress", target |-> args[1]]>>
                         \o start_run_replies(IdleTask, "whatweb", "legacy",
                                command, FALSE, spawn_ok)]
                /\ procs' = [procs EXCEPT ![t] =
                       IF spawn_ok THEN spawned(forks) ELSE NoProc]
    /\ UNCHANGED <<config, user_contexts>>

-----------------------------------------------------------------------------
(* The install button and the MCP tool call *)

(* query.data of the buttons of an install offer, and the tool name        *)
(* query.data.replace("install_", "") gives                                *)
InstallData == {"install_cancel", "install_wpscan", "install_nmap"}

callback_tool(data) == IF data = "install_wpscan" THEN "wpscan" ELSE "nmap"

(* KaliTelegramBot.install_callback up to the await of the install command *)
install_callback(t, user_id, data, spawn_ok, forks) ==
    /\ impl = "v2"
    /\ tasks[t].pc \in {"idle", "done", "raised"}
    /\ IF data = "install_cancel"
       THEN /\ tasks' = [tasks EXCEPT ![t] =
                   [IdleTask EXCEPT !.pc = "done", !.user_id = user_id,
                                    !.caller = "install"]]
            /\ outbox' = [outbox EXCEPT ![t] = <<[kind |-> "cancelled"]>>]
            /\ procs' = [procs EXCEPT ![t] = NoProc]
       ELSE LET tool_name == callback_tool(data)
                install_command == suggest_install(tool_name)
                called == [IdleTask EXCEPT !.user_id = user_id,
                               !.calls = <<[tool |-> tool_name,
                                            parameters |-> [install_command |-> install_command]]>>]
            IN  /\ tasks' = [tasks EXCEPT ![t] =
                       start_run(called, "install", "executor", install_command,
                                 600, FALSE, spawn_ok)]
                /\ outbox' = [outbox EXCEPT ![t] =
                       <<[kind |-> "installing", tool |-> tool_name]>>
                         \o start_run_replies(called, "install", "executor",
                                install_command, FALSE, spawn_ok)]
                /\ procs' = [procs EXCEPT ![t] =
                       IF spawn_ok THEN spawned(forks) ELSE NoProc]
    /\ UNCHANGED <<config, user_contexts>>

(* inputSchema of the nmap entry of TOOLS: the required arguments and the  *)
(* enumerated ones                                                         *)
nmap_required == {"target"}

nmap_enums ==
    [scan_type |-> {"quick", "basic", "version", "aggressive", "stealth", "udp"},
     output_format |-> {"normal", "verbose", "xml"}]

(* What the except Exception clause of handle_call_tool returns *)
call_tool_error(name, arguments, error) ==
    [success |-> FALSE, error |-> error, tool |-> name, arguments |-> arguments]

(* handle_call_tool up to the await of the subprocess of the tool *)
handle_call_tool(t, name, arguments, spawn_ok, forks) ==
    /\ impl = "legacy"
    /\ tasks[t].pc \in {"idle", "done", "raised"}
    /\ LET called == [IdleTask EXCEPT !.caller = "mcp",
                          !.calls = <<[tool |-> name, parameters |-> arguments]>>]
           failed(error) ==
               /\ tasks' = [tasks EXCEPT ![t] =
                      after_run(called, call_tool_error(name, arguments, error))]
               /\ outbox' = [outbox EXCEPT ![t] =
                      text_result(call_tool_error(name, arguments, error))]
               /\ procs' = [procs EXCEPT ![t] = NoProc]
       IN  IF name \notin TOOL_HANDLERS
           THEN failed(<<"Herramienta desconocida:", name>>)
           ELSE LET built == tool_handler(name, arguments)
                IN  IF built.raised
                    THEN failed(<<key_error(name, arguments)>>)
                    ELSE /\ tasks' = [tasks EXCEPT ![t] =
                                start_run(called, "mcp", built.runner, built.command,
                                          built.timeout, built.use_sudo, spawn_ok)]
                         /\ outbox' = [outbox EXCEPT ![t] =
                                start_run_replies(called, "mcp", built.runner,
                                    built.command, built.use_sudo, spawn_ok)]
                         /\ procs' = [procs EXCEPT ![t] =
                                IF spawn_ok THEN spawned(forks) ELSE NoProc]
    /\ UNCHANGED <<config, user_contexts>>

-----------------------------------------------------------------------------
(* Specifications *)

Init ==
    /\ impl \in Impls
    /\ root_password \in {"", "pw"}
    /\ openai_client = TRUE
    /\ ALLOWED_USER_IDS = {}
    /\ discovered_tools = InitialTools
    /\ user_contexts = <<>>
    /\ tasks = [t \in Tasks |-> IdleTask]
    /\ outbox = [t \in Tasks |-> <<>>]
    /\ procs = [t \in Tasks |-> NoProc]

(* The handler t is suspended on the completion API *)
AwaitingModel(t) == tasks[t].pc = "awaiting_model"

(* The conversation store: one handler at a time, two users, histories     *)
(* long enough to exceed both context limits                               *)
StoreReplies == {<<"C">>, <<"_", "x">>}

StoreMessages == {<<"x">>}

InitStore == Init /\ root_password = ""

NextStore ==
    \/ \E u \in Users, m \in StoreMessages : handle_message("t1", u, m)
    \/ \E c \in StoreReplies : chat_response("t1", c, "exit_0")
    \/ \E exc \in ApiExceptions : chat_failure("t1", exc)
    \/ _handle_ai_response("t1")
    \/ \E u \in Users : clear_command(u)
    \/ \E u \in Users, m \in StoreMessages : handle_ai_message("t1", u, m)
    \/ \E c \in StoreReplies : ai_parse_response("t1", c)
    \/ \E exc \in ApiExceptions : ai_parse_failure("t1", exc)
    \/ handle_ai_message_reply("t1")
    \/ \E u \in Users : clear_context_command(u)

SpecStore == InitStore /\ [][NextStore]_vars


(* The handling of one message from its arrival to the last reply, for     *)
(* every model reply of up to MaxLen tokens, and the runners called        *)
(* directly                                                                *)
ParseAlphabet == {"F", "j", "_", "x", "C", "T"}

ModelOutputs ==
    UNION {[1..k -> ParseAlphabet] : k \in 0..MaxLen}
        \cup {<<d>> : d \in JsonDocs}
        \cup {<<"F", "j", "_", d, "_", "F">> : d \in JsonTokens}

Commands == {<<"nmap", "-F", "host">>, <<"cat", "pw">>}

Runners == {"executor", "system", "legacy"}

Next ==
    \/ \E u \in Users, m \in UserMessages :
           TotalStored = 0 /\ handle_message("t1", u, m)
    \/ AwaitingModel("t1")
           /\ \E c \in ModelOutputs, w \in WhichOutcomes : chat_response("t1", c, w)
    \/ \E exc \in ApiExceptions : chat_failure("t1", exc)
    \/ _handle_ai_response("t1")
    \/ \E ok \in BOOLEAN, forks \in BOOLEAN : _handle_ai_response_tool("t1", ok, forks)
    \/ \E u \in Users, m \in UserMessages :
           TotalStored = 0 /\ handle_ai_message("t1", u, m)
    \/ AwaitingModel("t1")
           /\ \E c \in ModelOutputs : ai_parse_response("t1", c)
    \/ \E exc \in ApiExceptions : ai_parse_failure("t1", exc)
    \/ handle_ai_message_reply("t1")
    \/ \E ok \in BOOLEAN, forks \in BOOLEAN : handle_ai_message_tool("t1", ok, forks)
    \/ \E r \in Runners, c \in Commands, sudo \in BOOLEAN, ok \in BOOLEAN, forks \in BOOLEAN :
           TotalStored = 0 /\ run_command("t1", r, c, 300, sudo, ok, forks)
    \/ \E out \in Outputs, err \in Outputs, rc \in ReturnCodes :
           run_command_exit("t1", out, err, rc)
    \/ run_command_timeout("t1")
    \/ child_watcher_reap("t1")
    \/ orphan_exit("t1")

Spec == Init /\ [][Next]_vars

(* Two handlers interleaving at their awaits of the completion API, for   *)
(* the same user or for two users, with clears in between.  Each user      *)
(* sends their own messages and is answered their own replies, so that an  *)
(* entry tells whose exchange it comes from.                               *)
ConcMessages(u) == IF u = 1 THEN {<<"x">>} ELSE {<<"x", "_", "x">>}

ConcReplies(u) == IF u = 1 THEN {<<"C">>, <<"Q">>} ELSE {<<"U">>}

ConcRoom == TotalStored + 2 * InFlight + 2 <= MaxConc

InitConc == Init /\ root_password = ""

NextConc ==
    \E t \in Tasks :
        \/ \E u \in Users : \E m \in ConcMessages(u) : ConcRoom /\ handle_message(t, u, m)
        \/ AwaitingModel(t)
               /\ \E c \in ConcReplies(tasks[t].user_id) : chat_response(t, c, "exit_0")
        \/ chat_failure(t, "APITimeoutError")
        \/ _handle_ai_response(t)
        \/ \E u \in Users : clear_command(u)
        \/ \E u \in Users : \E m \in ConcMessages(u) : ConcRoom /\ handle_ai_message(t, u, m)
        \/ AwaitingModel(t)
               /\ \E c \in ConcReplies(tasks[t].user_id) : ai_parse_response(t, c)
        \/ ai_parse_failure(t, "APITimeoutError")
        \/ handle_ai_message_reply(t)
        \/ \E u \in Users : clear_context_command(u)

SpecConc == InitConc /\ [][NextConc]_vars

(* The showing of outputs longer than the chunk size: one tool run by each *)
(* dispatcher and by whatweb_command, for outputs of up to MaxOutput       *)
(* characters                                                              *)
Letters == <<"a", "b", "c", "d", "e", "f", "g">>

OutputText(L) == [i \in 1..L |-> Letters[(i % 7) + 1]]

LongOutputs ==
    {OutputText(L) : L \in {0, 1, CHUNK, CHUNK + 1, 2 * CHUNK, MaxOutput}}

InitOutput == Init /\ root_password = ""

NextOutput ==
    \/ TotalStored = 0 /\ handle_message("t1", 1, <<"x">>)
    \/ \E c \in {<<"T">>, <<"G">>} : chat_response("t1", c, "exit_0")
    \/ \E ok \in BOOLEAN, forks \in BOOLEAN : _handle_ai_response_tool("t1", ok, forks)
    \/ TotalStored = 0 /\ handle_ai_message("t1", 1, <<"x">>)
    \/ \E c \in {<<"T">>, <<"G">>} : ai_parse_response("t1", c)
    \/ \E ok \in BOOLEAN, forks \in BOOLEAN : handle_ai_message_tool("t1", ok, forks)
    \/ \E args \in {<<>>, <<"http://site">>}, ok \in BOOLEAN, forks \in BOOLEAN :
           whatweb_command("t1", 1, args, ok, forks)
    \/ \E out \in LongOutputs, err \in Outputs, rc \in ReturnCodes :
           run_command_exit("t1", out, err, rc)
    \/ run_command_timeout("t1")
    \/ child_watcher_reap("t1")
    \/ orphan_exit("t1")

SpecOutput == InitOutput /\ [][NextOutput]_vars

(* The bot under every configuration: with and without a model API         *)
(* credential, with an empty and a non-empty list of allowed users; text    *)
(* messages, the clear command, the install button, the /whatweb command    *)
(* and MCP tool calls, one handler at a time, until MaxBot entries are      *)
(* stored                                                                   *)
BotReplies == {<<"C">>, <<"G">>, <<"_", "x">>, <<"5">>}

BotWhich == {"exit_0", "exit_1"}

McpNames == {"nmap", "foo"}

McpArguments ==
    {[target |-> "10.0.0.1"], [ports |-> "80"],
     [target |-> "10.0.0.1", scan_type |-> "bogus"],
     [target |-> "10.0.0.1", output_format |-> "bogus"]}

InitBot ==
    /\ impl \in Impls
    /\ root_password = ""
    /\ openai_client \in BOOLEAN
    /\ ALLOWED_USER_IDS \in {{}, {1}}
    /\ discovered_tools = InitialTools
    /\ user_contexts = <<>>
    /\ tasks = [t \in Tasks |-> IdleTask]
    /\ outbox = [t \in Tasks |-> <<>>]
    /\ procs = [t \in Tasks |-> NoProc]

NextBot ==
    \/ \E u \in Users : TotalStored < MaxBot /\ handle_message("t1", u, <<"x">>)
    \/ \E c \in BotReplies, w \in BotWhich : chat_response("t1", c, w)
    \/ chat_failure("t1", "APITimeoutError")
    \/ _handle_ai_response("t1")
    \/ \E forks \in BOOLEAN : _handle_ai_response_tool("t1", TRUE, forks)
    \/ \E u \in Users : clear_command(u)
    \/ \E u \in Users, d \in InstallData, ok \in BOOLEAN :
           install_callback("t1", u, d, ok, FALSE)
    \/ \E u \in Users : TotalStored < MaxBot /\ handle_ai_message("t1", u, <<"x">>)
    \/ \E c \in BotReplies : ai_parse_response("t1", c)
    \/ ai_parse_failure("t1", "APITimeoutError")
    \/ handle_ai_message_reply("t1")
    \/ \E forks \in BOOLEAN : handle_ai_message_tool("t1", TRUE, forks)
    \/ \E u \in Users : clear_context_command(u)
    \/ \E u \in Users, ok \in BOOLEAN :
           whatweb_command("t1", u, <<"http://site">>, ok, FALSE)
    \/ \E name \in McpNames, arguments \in McpArguments, ok \in BOOLEAN :
           handle_call_tool("t1", name, arguments, ok, FALSE)
    \/ \E out \in Outputs, rc \in ReturnCodes : run_command_exit("t1", out, <<>>, rc)
    \/ run_command_timeout("t1")
    \/ child_watcher_reap("t1")
    \/ orphan_exit("t1")

SpecBot == InitBot /\ [][NextBot]_vars

-----------------------------------------------------------------------------
(* Properties of the conversation store *)

(* The n last entries of h, in the order they were stored *)
LastEntries(h, n) == [i \in 1..n |-> h[Len(h) - n + i]]

ExpectedRequest(h, n, m) ==
    <<[role |-> "system", content |-> system_prompt]>>
        \o LastEntries(h, n)
        \o <<[role |-> "user", content |-> m]>>

(* C1: when a user's stored history has more than N entries (N =           *)
(* AI_MAX_CONTEXT in the modular bot, 5 in the single-file server), the    *)
(* request built for the model is the system prompt, then exactly the last *)
(* N stored entries in their stored order, then the new user message.      *)
C1_RequestIsLastN ==
    [][\A t \in Tasks, u \in Users, m \in UserMessages :
          /\ (handle_message(t, u, m) /\ get_context_size(u) > AI_MAX_CONTEXT)
                => tasks'[t].messages =
                       ExpectedRequest(user_contexts[u], AI_MAX_CONTEXT, m)
          /\ (handle_ai_message(t, u, m) /\ get_context_size(u) > LEGACY_MAX_CONTEXT)
                => tasks'[t].messages =
                       ExpectedRequest(user_contexts[u], LEGACY_MAX_CONTEXT, m)]_vars

C1_Witness ==
    \E t \in Tasks :
        /\ impl = "v2"
        /\ tasks[t].pc = "awaiting_model"
        /\ Len(tasks[t].context) > AI_MAX_CONTEXT
        /\ Len(tasks[t].messages) = AI_MAX_CONTEXT + 2
        /\ tasks[t].context[2] # tasks[t].context[4]

(* C2: right after a clear for a user, whether or not the user had history,*)
(* the stored history read with any limit k is empty, get_context_size is  *)
(* 0 and a request built next carries no history entry.                    *)
C2_ClearThenEmpty ==
    [][\A u \in Users :
          (clear_command(u) \/ clear_context_command(u)) =>
              /\ Len(get_context(user_contexts', u)) = 0
              /\ \A k \in 0..MaxStored :
                     PySliceLast(get_context(user_contexts', u), k) = <<>>
              /\ \A m \in UserMessages, n \in {AI_MAX_CONTEXT, LEGACY_MAX_CONTEXT} :
                     build_messages(get_context(user_contexts', u), n, m) =
                         <<[role |-> "system", content |-> system_prompt],
                           [role |-> "user", content |-> m]>>]_vars

(* A user with stored history has been cleared while the other user has    *)
(* never written: both cases of the clear have happened                    *)
C2_Witness ==
    \E u \in Users :
        /\ u \in DOMAIN user_contexts
        /\ user_contexts[u] = <<>>
        /\ \E v \in Users : v \notin DOMAIN user_contexts

(* C3: the number of entries stored for a user never exceeds the context   *)
(* maximum.                                                                *)
C3_StoreBounded ==
    \A u \in DOMAIN user_contexts :
        Len(user_contexts[u]) <=
            IF impl = "v2" THEN AI_MAX_CONTEXT ELSE LEGACY_MAX_CONTEXT

(***************************************************************************)
(* Model replies by their form                                            *)
(***************************************************************************)
(* The handler of t has received the reply of the model and stored it *)
GotReply(t) ==
    /\ tasks[t].pc \in {"returned", "awaiting_process", "done", "raised"}
    /\ tasks[t].user_id \in DOMAIN user_contexts
    /\ Len(user_contexts[tasks[t].user_id]) = Len(tasks[t].context) + 2

(* The reply the handler of t received: the assistant entry it stored *)
ReplyOf(t) ==
    user_contexts[tasks[t].user_id][Len(tasks[t].context) + 2].content

(* s is only whitespace *)
Blank(s) == \A i \in 1..Len(s) : s[i] = "_"

(* s begins with a code fence, with or without the json tag, and the       *)
(* region up to the next fence (or the end) is the JSON document d in      *)
(* optional whitespace                                                     *)
FencedDoc(s, d) ==
    /\ Len(s) >= 2
    /\ s[1] = "F"
    /\ \E first \in 2..3, i \in 2..Len(s), last \in 2..Len(s) :
          /\ first = 3 <=> s[2] = "j"
          /\ first <= i /\ i <= last
          /\ s[i] = d
          /\ Blank(SubSeq(s, first, i - 1))
          /\ Blank(SubSeq(s, i + 1, last))
          /\ last = Len(s) \/ s[last + 1] = "F"

(* s is one JSON document in optional whitespace *)
BareDoc(s, d) ==
    \E i \in 1..Len(s) :
        /\ s[i] = d
        /\ Blank(SubSeq(s, 1, i - 1))
        /\ Blank(SubSeq(s, i + 1, Len(s)))

(* C4: when the model's reply begins with a code-fence marker, with or     *)
(* without the json tag, and its first fenced region holds the JSON object *)
(* J, the parser of either implementation yields exactly J: the value it   *)
(* yields for J sent without the fence.                                    *)
C4_FencedJsonParsed ==
    \A t \in Tasks, d \in JsonTokens :
        GotReply(t) =>
            /\ FencedDoc(ReplyOf(t), d) => tasks[t].parsed = JsonValue(d)
            /\ BareDoc(ReplyOf(t), d) => tasks[t].parsed = JsonValue(d)

C4_Witness ==
    \E t \in Tasks :
        /\ GotReply(t)
        /\ ReplyOf(t) = <<"F", "j", "_", "Q", "_", "F">>
        /\ tasks[t].parsed = JsonValue("Q")
        /\ tasks[t].pc = "done"
        /\ outbox[t] # <<>>
        /\ outbox[t][1].kind = "question"

(* r has the form {"tool": T, "parameters": P, "explanation": E} *)
ToolShaped(r) == DOMAIN r = {"tool", "parameters", "explanation"}

(* The availability check the handler of t made, and what it reported *)
CheckReported(t, present) ==
    /\ ToolShaped(tasks[t].parsed)
    /\ tasks[t].checked = <<[tool |-> tasks[t].parsed.tool, present |-> present]>>

(* C5: (v2) when the model returns a Tool-shaped object naming T with      *)
(* parameters P and the availability check reports T present, chat returns *)
(* that object and the dispatcher requests the execution of exactly T with *)
(* exactly P, once.                                                        *)
C5_PresentToolExecuted ==
    \A t \in Tasks :
        (impl = "v2" /\ GotReply(t) /\ CheckReported(t, TRUE)) =>
            /\ tasks[t].result = tasks[t].parsed
            /\ tasks[t].pc # "raised"
            /\ tasks[t].pc \in {"awaiting_process", "done"} =>
                   tasks[t].calls = <<[tool |-> tasks[t].parsed.tool,
                                      parameters |-> tasks[t].parsed.parameters]>>

C5_Witness ==
    \E t \in Tasks :
        /\ impl = "v2" /\ GotReply(t) /\ CheckReported(t, TRUE)
        /\ tasks[t].pc = "done"
        /\ tasks[t].calls = <<[tool |-> "wpscan", parameters |-> [url |-> "http://site"]]>>
        /\ procs[t].shell = "exited"

(* C6: (v2) when the model returns a Tool-shaped object naming T and the   *)
(* availability check reports T absent, chat returns a ToolNotInstalled    *)
(* result carrying T and its install command, not a Tool result, and the   *)
(* dispatcher offers the installation and requests no execution.           *)
C6_AbsentToolOffered ==
    \A t \in Tasks :
        (impl = "v2" /\ GotReply(t) /\ CheckReported(t, FALSE)) =>
            /\ v2_shape(tasks[t].result) = "tool_not_installed"
            /\ "tool" \notin DOMAIN tasks[t].result
            /\ tasks[t].result.tool_not_installed = tasks[t].parsed.tool
            /\ tasks[t].result.install_command = suggest_install(tasks[t].parsed.tool)
            /\ tasks[t].calls = <<>>
            /\ procs[t] = NoProc
            /\ tasks[t].pc \in {"returned", "done"}
            /\ tasks[t].pc = "done" =>
                   /\ Len(outbox[t]) = 1
                   /\ outbox[t][1].kind = "offer_install"
                   /\ outbox[t][1].tool = tasks[t].parsed.tool

C6_Witness ==
    \E t \in Tasks :
        /\ impl = "v2" /\ GotReply(t) /\ CheckReported(t, FALSE)
        /\ tasks[t].parsed.tool = "nmap"
        /\ tasks[t].pc = "done"
        /\ outbox[t][1].kind = "offer_install"

(* C7: on every path that handles a Tool-tagged reply of the model,        *)
(* handle_ai_message of the single-file server included, the availability  *)
(* check has been consulted for the tool before a subprocess is started,   *)
(* and no subprocess is started for a tool it reports absent.              *)
C7_CheckedBeforeSubprocess ==
    \A t \in Tasks :
        (tasks[t].caller \in {"v2", "legacy"} /\ procs[t].shell # "none") =>
            /\ tasks[t].checked # <<>>
            /\ tasks[t].checked[1].tool = tasks[t].calls[1].tool
            /\ tasks[t].checked[1].present

(* word occurs in text *)
Contains(text, word) == \E i \in 1..Len(text) : text[i] = word

(* C8: when the timeout of a runner (ToolExecutor.run_command,             *)
(* ToolSystemManager._run_command, the run_command of the single-file      *)
(* server) elapses while its subprocess is running, the result has success *)
(* false, an error naming the timeout, and no stdout, stderr or returncode.*)
C8_TimeoutResult ==
    [][\A t \in Tasks :
          run_command_timeout(t) =>
              LET r == tasks'[t].run_result
              IN  /\ r.success = FALSE
                  /\ Contains(r.error, "timeout")
                  /\ DOMAIN r \cap {"stdout", "stderr", "returncode"} = {}]_vars

C8_Witness ==
    \E t \in Tasks :
        /\ tasks[t].runner = "system"
        /\ tasks[t].pc = "done"
        /\ procs[t].shell = "killed"
        /\ tasks[t].run_result.success = FALSE
        /\ Contains(tasks[t].run_result.error, "timeout")

(* C9: once a runner has returned a timeout failure, nothing it started    *)
(* remains: the shell and the processes the shell started are terminated   *)
(* and reaped.                                                             *)
C9_NothingLeftAfterTimeout ==
    \A t \in Tasks :
        (tasks[t].pc = "done" /\ procs[t].shell = "killed") =>
            /\ procs[t].reaped
            /\ procs[t].children # "running"

(* s is neither a JSON document nor a fenced block holding one *)
Malformed(s) ==
    \A d \in JsonDocs : ~BareDoc(s, d) /\ ~FencedDoc(s, d)

(* C10: when the reply of the model is neither valid JSON nor a fenced     *)
(* block holding valid JSON, chat (and ai_parse_command) return an         *)
(* Error-tagged result, the dispatcher answers with the error, and no      *)
(* exception leaves the message handler.                                   *)
C10_MalformedReplyIsError ==
    \A t \in Tasks :
        (GotReply(t) /\ Malformed(ReplyOf(t))) =>
            /\ "error" \in DOMAIN tasks[t].result
            /\ (IF impl = "v2" THEN v2_shape(tasks[t].result)
                               ELSE legacy_shape(tasks[t].result)) = "error"
            /\ tasks[t].calls = <<>>
            /\ tasks[t].pc \in {"returned", "done"}
            /\ tasks[t].pc = "done" =>
                   /\ Len(outbox[t]) = 1
                   /\ outbox[t][1].kind = "error"

C10_Witness ==
    \E t \in Tasks :
        /\ GotReply(t)
        /\ ReplyOf(t) = <<"F", "j", "x", "C">>
        /\ tasks[t].pc = "done"
        /\ outbox[t][1].kind = "error"

(* The replies of t that show output, in send order *)
OutputReplies(t) == SelectSeq(outbox[t], LAMBDA m : m.kind = "output")

(* The number of characters of a text: a fence is three characters *)
CharLen(text) ==
    Len(text) + 2 * Cardinality({i \in 1..Len(text) : text[i] = "F"})

RECURSIVE ConcatTexts(_)
ConcatTexts(msgs) ==
    IF msgs = <<>> THEN <<>> ELSE Head(msgs).text \o ConcatTexts(Tail(msgs))

(* C11: for a successful tool output of length L above the 4000-character  *)
(* chunk limit the user is sent exactly ceil(L/4000) messages, each of at  *)
(* most 4000 characters, whose concatenation in send order is the output.  *)
C11_ChunkedOutput ==
    \A t \in Tasks :
        (/\ tasks[t].pc = "done"
         /\ tasks[t].caller \in {"v2", "legacy", "whatweb"}
         /\ "stdout" \in DOMAIN tasks[t].run_result
         /\ Len(tasks[t].run_result.stdout) > CHUNK) =>
            LET output == tasks[t].run_result.stdout
                msgs == OutputReplies(t)
            IN  /\ Len(msgs) = (Len(output) + CHUNK - 1) \div CHUNK
                /\ \A k \in 1..Len(msgs) : CharLen(msgs[k].text) <= CHUNK
                /\ ConcatTexts(msgs) = output

Dispatched(t) ==
    /\ tasks[t].pc \in {"awaiting_process", "done"}
    /\ tasks[t].result # NoResult

(* The branch the dispatcher took, read from its first reply *)
Acted(t) ==
    IF outbox[t] = <<>> THEN "none"
    ELSE CASE outbox[t][1].kind = "announce" -> "tool"
           [] outbox[t][1].kind = "offer_install" -> "tool_not_installed"
           [] outbox[t][1].kind \in {"conversation", "question", "error"} ->
                  outbox[t][1].kind
           [] OTHER -> "unknown"

(* The shape of r under the order conversation, tool+parameters, question, *)
(* tool_not_installed, error                                               *)
ClaimedShape(r) ==
    CASE "conversation" \in DOMAIN r -> "conversation"
      [] "tool" \in DOMAIN r /\ "parameters" \in DOMAIN r -> "tool"
      [] "question" \in DOMAIN r -> "question"
      [] "tool_not_installed" \in DOMAIN r -> "tool_not_installed"
      [] "error" \in DOMAIN r -> "error"
      [] OTHER -> "unknown"

(* C13: the dispatcher acts on the first shape a result matches in the     *)
(* order conversation, tool+parameters, question, tool_not_installed,      *)
(* error: a result with tool+parameters and question is run as a tool, one *)
(* with conversation and error is answered as conversation.                *)
C13_ClaimedOrder ==
    \A t \in Tasks : Dispatched(t) => Acted(t) = ClaimedShape(tasks[t].result)

(* The shapes whose keys r carries *)
TagsOf(r) ==
    {k \in {"conversation", "question", "tool_not_installed", "error"} :
        k \in DOMAIN r}
    \cup (IF "tool" \in DOMAIN r /\ "parameters" \in DOMAIN r
          THEN {"tool"} ELSE {})

(* C14: every result chat / ai_parse_command returns carries the keys of   *)
(* exactly one of the shapes Conversation, Tool, Question,                 *)
(* ToolNotInstalled, Error, whatever the model has answered.               *)
C14_ExactlyOneTag ==
    \A t \in Tasks :
        tasks[t].result # NoResult => Cardinality(TagsOf(tasks[t].result)) = 1

(* C15: a result of none of the known shapes (a tool key without           *)
(* parameters included) is answered with an explicit failure message; no   *)
(* tool is executed and the handler does not end without a reply.          *)
C15_UnknownShapeAnswered ==
    \A t \in Tasks :
        (tasks[t].result # NoResult /\ TagsOf(tasks[t].result) = {}) =>
            /\ tasks[t].pc \in {"returned", "done"}
            /\ tasks[t].calls = <<>>
            /\ procs[t] = NoProc
            /\ tasks[t].pc = "done" =>
                   /\ Len(outbox[t]) = 1
                   /\ outbox[t][1].kind = "unknown"
                   /\ outbox[t][1].text # <<>>

(* The tool catalog of the running implementation *)
Catalog ==
    IF impl = "v2" THEN common_kali_tools \cup tool_methods ELSE TOOL_HANDLERS

(* C16: a tool name the model proposes is executed only if it is an entry  *)
(* of the tool catalog: for any other name no command line is built and no *)
(* subprocess is started.                                                  *)
C16_OnlyCatalogTools ==
    \A t \in Tasks :
        (/\ tasks[t].caller \in {"v2", "legacy"}
         /\ tasks[t].command # <<>> \/ procs[t].shell # "none") =>
            tasks[t].calls[1].tool \in Catalog

(* The run whose result is r failed: it timed out, could not be started,   *)
(* or exited with a non-zero code                                          *)
RunFailed(r) ==
    \/ "error" \in DOMAIN r
    \/ "returncode" \in DOMAIN r /\ r.returncode # 0

(* C17: every tool execution that fails, by timeout or by a non-zero exit  *)
(* code, is reported to the user as a failure with its error output: a run *)
(* that exits non-zero is never shown as a success and its stderr is not   *)
(* dropped.                                                                *)
C17_FailuresReported ==
    \A t \in Tasks :
        (/\ tasks[t].pc = "done"
         /\ tasks[t].caller \in {"v2", "legacy"}
         /\ tasks[t].run_result # NoResult
         /\ RunFailed(tasks[t].run_result)) =>
            /\ OutputReplies(t) = <<>>
            /\ \E k \in 1..Len(outbox[t]) :
                   /\ outbox[t][k].kind = "error"
                   /\ "stderr" \in DOMAIN tasks[t].run_result =>
                          outbox[t][k].text = tasks[t].run_result.stderr

(* C18: with a root password configured, the command field of every result *)
(* of ToolSystemManager._run_command (success, timeout and exception, with *)
(* or without sudo) does not contain the password.                         *)
C18_PasswordRedacted ==
    \A t \in Tasks :
        (/\ root_password # ""
         /\ tasks[t].runner = "system"
         /\ tasks[t].run_result # NoResult) =>
            ~Contains(tasks[t].run_result.command, root_password)

(* The contents of the entries of the exchanges of user u *)
OwnEntries(u) == ConcMessages(u) \cup {strip(c) : c \in ConcReplies(u)}

(* The step completes or clears for user a *)
OperationFor(a) ==
    \/ clear_command(a)
    \/ clear_context_command(a)
    \/ \E t \in Tasks : /\ tasks[t].user_id = a
                         /\ tasks[t].pc = "awaiting_model"
                         /\ tasks'[t].pc = "returned"

(* C19: however chats and clears for distinct users interleave, an         *)
(* operation for user A leaves the stored history of user B as it was, and *)
(* a request made for user B carries entries of user B only.               *)
C19_UsersIsolated ==
    [][/\ \A a \in Users, b \in Users :
             (a # b /\ OperationFor(a)) =>
                 /\ (b \in DOMAIN user_contexts') = (b \in DOMAIN user_contexts)
                 /\ get_context(user_contexts', b) = get_context(user_contexts, b)
       /\ \A t \in Tasks, b \in Users : \A m \in ConcMessages(b) :
             (handle_message(t, b, m) \/ handle_ai_message(t, b, m)) =>
                 \A i \in 2..Len(tasks'[t].messages) :
                     tasks'[t].messages[i].content \in OwnEntries(b)
       /\ \A b \in DOMAIN user_contexts' :
             \A i \in 1..Len(user_contexts'[b]) :
                 user_contexts'[b][i].content \in OwnEntries(b)]_vars

C19_Witness ==
    \E t \in Tasks, s \in Tasks :
        /\ tasks[t].user_id = 1 /\ tasks[s].user_id = 2
        /\ tasks[t].pc = "returned" /\ tasks[s].pc = "returned"
        /\ 1 \in DOMAIN user_contexts /\ 2 \in DOMAIN user_contexts
        /\ Len(user_contexts[1]) = 2 /\ Len(user_contexts[2]) = 2
        /\ user_contexts[1][1].content \in ConcMessages(1)
        /\ user_contexts[2][1].content \in ConcMessages(2)

(* s is a prefix of r *)
IsPrefix(s, r) == Len(s) <= Len(r) /\ SubSeq(r, 1, Len(s)) = s

(* C20: between clears the history of a user is append-only: every write   *)
(* extends the stored sequence, so the exchanges of several chat calls in  *)
(* flight at once for one user are all in the history when they have       *)
(* completed.                                                              *)
C20_AppendOnly ==
    [][\A u \in DOMAIN user_contexts :
          ~(clear_command(u) \/ clear_context_command(u)) =>
              /\ u \in DOMAIN user_contexts'
              /\ IsPrefix(user_contexts[u], user_contexts'[u])]_vars

-----------------------------------------------------------------------------
(* C21: every external invocation carries an explicit timeout: a handler   *)
(* suspended on the completion API has passed a timeout among the          *)
(* arguments of the request, and a handler suspended on a subprocess waits *)
(* with a positive timeout                                                 *)
C21_EveryCallHasTimeout ==
    \A t \in Tasks :
        /\ tasks[t].pc = "awaiting_model" => "timeout" \in tasks[t].request_args
        /\ tasks[t].pc = "awaiting_process" => tasks[t].timeout > 0

(* C29: _handle_ai_response is total over the mappings chat returns: once  *)
(* it has been given a result and has acted, it has sent at least one      *)
(* reply and no exception has left it                                      *)
C29_DispatcherTotal ==
    \A t \in Tasks :
        (/\ impl = "v2"
         /\ tasks[t].result # NoResult
         /\ tasks[t].pc # "returned") =>
            /\ tasks[t].pc # "raised"
            /\ Len(outbox[t]) >= 1

(* The reply the handler of t received is valid JSON that is no object *)
NonObjectReply(t) ==
    GotReply(t) /\ \E d \in JsonScalars : BareDoc(ReplyOf(t), d)

(* C28: chat and ai_parse_command return a key-value mapping for every     *)
(* model output; for a reply that is valid JSON but no object the mapping  *)
(* carries the error key, and the key tests of the handler do not fail     *)
C28_AlwaysMapping ==
    \A t \in Tasks :
        /\ tasks[t].result # NoResult => is_mapping(tasks[t].result)
        /\ NonObjectReply(t) =>
               /\ "error" \in DOMAIN tasks[t].result
               /\ tasks[t].pc # "raised"

(* C26: a clear takes effect against a chat in flight: when a chat         *)
(* completes for a user whose history is empty at that moment (it was      *)
(* cleared, or never written), the history stored afterwards holds at most *)
(* the exchange of that chat and no entry from before the clear            *)
C26_ClearTakesEffect ==
    [][\A t \in Tasks :
          (/\ tasks[t].pc = "awaiting_model"
           /\ tasks'[t].pc = "returned"
           /\ get_context(user_contexts, tasks[t].user_id) = <<>>) =>
              Len(get_context(user_contexts', tasks[t].user_id)) <= 2]_vars

(* The handler of t asked chat / ai_parse_command and got its result *)
ChatReturned(t) ==
    /\ tasks[t].user_message # <<>>
    /\ tasks[t].pc \in {"returned", "awaiting_process", "done", "raised"}

(* C22: without a model API credential every chat / ai_parse_command call  *)
(* returns an Error result saying the assistant is unavailable, with a     *)
(* suggestion; no request is made to the model API and no history is       *)
(* written; an MCP tool call and the /whatweb command can still be made    *)
(* and still run their tool                                                *)
C22_UnavailableDegrades ==
    ~openai_client =>
        /\ user_contexts = <<>>
        /\ \A t \in Tasks :
              /\ tasks[t].pc # "awaiting_model"
              /\ tasks[t].messages = <<>>
              /\ tasks[t].request_args = {}
              /\ ChatReturned(t) =>
                     /\ tasks[t].result \in {chat_unavailable, ai_parse_unavailable}
                     /\ "error" \in DOMAIN tasks[t].result
                     /\ "suggestion" \in DOMAIN tasks[t].result
                     /\ tasks[t].pc \in {"returned", "done"}
                     /\ tasks[t].pc = "done" =>
                            /\ Len(outbox[t]) = 1
                            /\ outbox[t][1].kind = "error"
                            /\ outbox[t][1].suggestion = tasks[t].result.suggestion
              /\ (impl = "legacy" /\ tasks[t].pc \in {"idle", "done", "raised"}) =>
                     /\ ENABLED handle_call_tool(t, "nmap", [target |-> "10.0.0.1"],
                                                 TRUE, FALSE)
                     /\ ENABLED whatweb_command(t, 1, <<"http://site">>, TRUE, FALSE)
              /\ (tasks[t].caller \in {"mcp", "whatweb"} /\ tasks[t].command # <<>>) =>
                     \/ procs[t].shell # "none"
                     \/ tasks[t].run_result = run_exception("legacy", tasks[t].command)

C22_Witness ==
    /\ ~openai_client
    /\ \E t \in Tasks :
          /\ ChatReturned(t)
          /\ tasks[t].pc = "done"
          /\ outbox[t][1].kind = "error"

(* C23: the system prompt of every request to the model lists the          *)
(* discovered tools as they are when the request is made; after an install *)
(* and rescan, the next request lists the new tool                         *)
C23_PromptListsCatalog ==
    \A t \in Tasks :
        (impl = "v2" /\ tasks[t].pc = "awaiting_model") =>
            tasks[t].messages[1].content = _load_system_prompt(discovered_tools)

(* C30: the install is reported as done, and the catalogue rescanned, only *)
(* if the install command exited with 0; a non-zero exit is answered with  *)
(* an error                                                                *)
C30_InstalledOnlyOnExitZero ==
    \A t \in Tasks :
        (/\ tasks[t].caller = "install"
         /\ tasks[t].pc = "done"
         /\ tasks[t].run_result # NoResult) =>
            LET r == tasks[t].run_result
                ok == "returncode" \in DOMAIN r /\ r.returncode = 0
            IN  /\ install_tool(tasks[t].calls[1].tool, r).success = ok
                /\ outbox[t][Len(outbox[t])].kind = (IF ok THEN "installed" ELSE "error")

(* C25: with a non-empty list of allowed users, no handler of the modular  *)
(* bot does anything for a user who is not on it: no request to the model, *)
(* no subprocess, no install, no history                                   *)
C25_UnlistedUserNoEffect ==
    \A t \in Tasks :
        (/\ impl = "v2"
         /\ ALLOWED_USER_IDS # {}
         /\ tasks[t].user_id \notin ALLOWED_USER_IDS \cup {0}) =>
            /\ tasks[t].pc \notin {"awaiting_model", "awaiting_process"}
            /\ tasks[t].command = <<>>
            /\ procs[t] = NoProc
            /\ get_context(user_contexts, tasks[t].user_id) = <<>>

(* The MCP call names no tool of the server, lacks a required argument or  *)
(* gives an enumerated argument a value outside its enum                   *)
InvalidCall(call) ==
    \/ call.tool \notin TOOL_HANDLERS
    \/ /\ call.tool = "nmap"
       /\ \/ ~(nmap_required \subseteq DOMAIN call.parameters)
          \/ \E k \in DOMAIN nmap_enums \cap DOMAIN call.parameters :
                 call.parameters[k] \notin nmap_enums[k]

(* C24: handle_call_tool returns exactly one text result and raises        *)
(* nothing; for an unknown tool name, a missing required argument or a     *)
(* value outside an enum the result has success = false and an error       *)
(* message, and for an unknown name no subprocess is started               *)
C24_CallToolResult ==
    \A t \in Tasks :
        tasks[t].caller = "mcp" =>
            /\ tasks[t].pc \in {"awaiting_process", "done"}
            /\ tasks[t].pc = "done" =>
                   /\ Len(outbox[t]) = 1
                   /\ outbox[t][1].kind = "text"
            /\ (tasks[t].pc = "done" /\ InvalidCall(tasks[t].calls[1])) =>
                   /\ ~outbox[t][1].text.success
                   /\ "error" \in DOMAIN outbox[t][1].text
            /\ tasks[t].calls[1].tool \notin TOOL_HANDLERS =>
                   /\ procs[t] = NoProc
                   /\ tasks[t].command = <<>>

(* The history of the caller of t after a reply: the history the call read *)
(* with the user message and the reply text appended, in that order        *)
WithExchange(t, content) ==
    tasks[t].context \o <<[role |-> "user", content |-> tasks[t].user_message],
                          [role |-> "assistant", content |-> strip(content)]>>

====
